---------------------------- MODULE Spec2Model ----------------------------
(***************************************************************************)
(* GyanForge client (React + axios) against the Module Service.            *)
(*                                                                         *)
(* Several specifications share this module:                               *)
(*   Spec     - ApiService (frontend/src/services/apiService.js), the      *)
(*              AuthProvider and the Dashboard handlers, talking to the    *)
(*              Module Service.  The service itself (FastAPI backend) is   *)
(*              not part of the examined sources; its handlers are         *)
(*              modelled from the design document (section 4, 6, 8).       *)
(*   QuizSpec - QuizPage: countdown, answer selection, submission.         *)
(*   OldSpec  - apiService.old.js: submitQuiz with its MOCK_MODE grader.   *)
(*   ErrorSpec    - ApiService._handleError and the catch blocks.          *)
(*   EnhancedSpec - EnhancedModules: the create form.                      *)
(*   LearnSpec    - LearningPage: the chat quiz.                           *)
(*   ChatSpec     - LearningPage: messages typed into the chat.            *)
(*   TokenSpec    - ApiService.isAuthenticated.                            *)
(*   AuthSpec     - AuthProvider on its own, with register.                *)
(*   RegisterSpec - RegisterPage: validation and submission.               *)
(*   RouteSpec    - the router: protected pages and the auth context.      *)
(* Each specification leaves the variables of the others unchanged.        *)
(***************************************************************************)
EXTENDS Integers, Sequences, FiniteSets, TLC

VARIABLES
  \* ---- browser / ApiService (Spec)
  authToken,        \* localStorage['authToken']
  location,         \* window.location.href
  now,              \* Date.now(), in token-lifetime units
  inflight,         \* requests sent through axios, not yet settled
  last,             \* the call the latest step settled, as its caller saw
                    \* it (NoCall when the latest step settled none)
  \* ---- AuthProvider state
  user, loading, isAuthenticated,
  \* ---- Dashboard state
  modules,          \* Dashboard `modules` (ids, newest first)
  newModuleForm,    \* Dashboard `newModuleForm`
  createLoading,    \* Dashboard `createLoading`
  \* ---- Module Service (server side)
  srvModules,       \* persisted Module rows
  srvNextId,        \* next primary key
  generated,        \* history: module rows returned by successful generation
  deleted,          \* history: ids whose deletion the server confirmed
  saved,            \* the module whose file the latest step handed to the
                    \* browser as a download (0 when it saved none)
  \* ---- QuizPage state (QuizSpec)
  mounted,          \* the component is mounted
  module,           \* `module` (its number of quiz questions)
  currentQuestion, answers, submitted, results, quizLoading, error,
  timeLeft, quizStarted,
  timerAnswers,     \* `answers` as captured by the running interval's closure
  quizCalls,        \* QuizPage's calls awaiting their response
  \* ---- apiService.old.js (OldSpec)
  MOCK_MODE,        \* the build switch of apiService.old.js
  quizModuleId,     \* submitQuiz's moduleId argument
  quizAnswers,      \* submitQuiz's answers argument
  quizResult,       \* what submitQuiz returned
  \* ---- one failing ApiService call (ErrorSpec)
  failure,          \* the method called and the error axios rejected with
  reported,         \* what the method returned or threw
  \* ---- EnhancedModules state (EnhancedSpec)
  emModules,        \* `modules`
  emLoading,        \* `loading`
  emError,          \* `error`
  newModuleData,    \* `newModuleData`
  showCreateForm,   \* `showCreateForm`
  emRequests,       \* generation requests sent with fetch, not yet settled
  \* ---- LearningPage state (LearnSpec)
  lpModule,         \* `module` (its quiz_questions)
  quizQuestions,    \* `quizQuestions` (how many the quiz tab lists)
  quizMode,         \* `quizMode`
  lpCurrentQuestion, \* `currentQuestion`
  chatMessages,     \* `chatMessages`
  selectedAnswer,   \* `selectedAnswer`
  lpQuizAnswers,    \* `quizAnswers`
  timeouts,         \* pending setTimeout callbacks, each with the
                    \* `currentQuestion` of the render that created it
  \* ---- LearningPage chat input (ChatSpec)
  currentInput,     \* `currentInput`
  isTyping,         \* `isTyping`
  chatCalls,        \* sendChatMessage calls awaiting their response
  \* ---- one call of ApiService.isAuthenticated (TokenSpec)
  storedToken,      \* localStorage.getItem('authToken'), as its segments
  dateNow,          \* Date.now(), in milliseconds
  authCheck,        \* what isAuthenticated() returned or threw
  \* ---- RegisterPage state (RegisterSpec)
  formData,         \* `formData` (password, confirmPassword)
  regLoading,       \* `loading`
  regError,         \* `error`
  success,          \* `success`
  regCalls,         \* register() calls awaiting their result
  regTimeouts,      \* pending navigate('/login') timeouts
  regPath,          \* the route shown
  \* ---- the router (RouteSpec)
  route             \* the route whose element is mounted

apiVars == <<authToken, location, now, inflight, last, user, loading,
             isAuthenticated, modules, newModuleForm, createLoading,
             srvModules, srvNextId, generated, deleted, saved>>

quizVars == <<mounted, module, currentQuestion, answers, submitted, results,
              quizLoading, error, timeLeft, quizStarted, timerAnswers, quizCalls>>

oldVars == <<MOCK_MODE, quizModuleId, quizAnswers, quizResult>>

errVars == <<failure, reported>>

emVars == <<emModules, emLoading, emError, newModuleData, showCreateForm,
            emRequests>>

\* the variables an ApiService/Dashboard step leaves alone
lpVars == <<lpModule, quizQuestions, quizMode, lpCurrentQuestion,
            chatMessages, selectedAnswer, lpQuizAnswers, timeouts>>

chatVars == <<currentInput, isTyping, chatCalls>>

tokVars == <<storedToken, dateNow, authCheck>>

regVars == <<formData, regLoading, regError, success, regCalls,
             regTimeouts, regPath>>

routeVars == <<route>>

notApi == <<quizVars, oldVars, errVars, emVars, lpVars, chatVars, tokVars, regVars, routeVars>>

vars == <<apiVars, quizVars, oldVars, errVars, emVars, lpVars, chatVars, tokVars, regVars, routeVars>>

----------------------------------------------------------------------------
(* Bounds *)
MaxModules == 2      \* modules generated in one behaviour
MaxTime == 1         \* clock ticks in one behaviour
MaxInFlight == 1     \* requests in flight at once

Users == {"u1", "u2"}
Paths == {"/dashboard", "/login"}
Prompts == {"Python Lists"}
Difficulties == {"medium", "hard"}
Durations == {30, 60}
QuizAnswers == {"A", "B"}

----------------------------------------------------------------------------
(* Values *)
NoToken == [user |-> "none", exp |-> 0]       \* localStorage.getItem -> null
NoUser == "null"
NoData == [modules |-> {}, token |-> NoToken, user |-> NoUser, wrapped |-> FALSE,
           score |-> -1, blob |-> FALSE]
NoCall == [method |-> "none", caller |-> "none", arg |-> 0, auth |-> NoToken,
           body |-> [none |-> TRUE], status |-> 0, ok |-> TRUE, data |-> NoData]
NoModule == [quiz_questions |-> -1]             \* useState(null)
NullTime == -1                                  \* useState(null)
DefaultForm == [prompt |-> "", difficulty |-> "medium", duration |-> 30]

Ids(ms) == {m.id : m \in ms}

----------------------------------------------------------------------------
(* Module Service, modelled from the design document *)

\* Lifetime of an issued bearer token, in clock ticks.
TokenTTL == 1

\* A bearer token is accepted while it names a user and has not expired.
TokenValid(t) == t.user \in Users /\ t.exp > now

Protected(method) == method \notin {"login", "register", "checkHealth"}

Reply(status, data, mods, nextId) ==
  [status |-> status, data |-> data, modules |-> mods, nextId |-> nextId]

Unchanged(status, data) == Reply(status, data, srvModules, srvNextId)

\* POST /api/v1/auth/login
ServeLogin(r) ==
  IF r.body.password = "right"
  THEN {Unchanged(200, [NoData EXCEPT
          !.token = [user |-> r.body.email, exp |-> now + TokenTTL],
          !.user = r.body.email])}
  ELSE {Unchanged(400, NoData), Unchanged(401, NoData)}

\* GET /api/v1/users/me
ServeMe(r) == {Unchanged(200, [NoData EXCEPT !.user = r.auth.user])}

\* the row persisted for a generated module; its quiz is one question, kept
\* by its correct answer
GeneratedRow(id, owner) == [id |-> id, owner |-> owner, correct_answer |-> "A"]

\* POST /api/v1/modules/generate
ServeGenerate(r) ==
  IF r.body.prompt = "" THEN {Unchanged(422, NoData)}
  ELSE IF srvNextId > MaxModules THEN {Unchanged(500, NoData)}
  ELSE LET m == GeneratedRow(srvNextId, r.auth.user)
       IN  {Reply(200, [NoData EXCEPT !.modules = {m}, !.wrapped = w],
                  srvModules \cup {m}, srvNextId + 1) : w \in BOOLEAN}

ServeList_AllRows(r) == {Unchanged(200, [NoData EXCEPT !.modules = srvModules])}

\* GET /api/v1/modules
ServeList(r) ==
  {Unchanged(200, [NoData EXCEPT
     !.modules = {m \in srvModules : m.owner = r.auth.user}])}

\* GET /api/v1/modules/{id}
ServeGet(r) ==
  LET found == {m \in srvModules : m.id = r.id /\ m.owner = r.auth.user}
  IN  IF found = {} THEN {Unchanged(404, NoData)}
      ELSE {Unchanged(200, [NoData EXCEPT !.modules = found])}

\* DELETE /api/v1/modules/{id}
ServeDelete(r) ==
  LET found == {m \in srvModules : m.id = r.id /\ m.owner = r.auth.user}
  IN  IF found = {} THEN {Unchanged(404, NoData)}
      ELSE {Reply(200, NoData, srvModules \ found, srvNextId)}

\* the module the request names, if the caller owns it
Found(r) == {m \in srvModules : m.id = r.id /\ m.owner = r.auth.user}

\* a quiz submission that replaces the stored answer key by what was submitted
ServeSubmit_Overwrites(r) ==
  IF Found(r) = {} THEN {Unchanged(404, NoData)}
  ELSE {Reply(200, [NoData EXCEPT !.score = 100],
              (srvModules \ Found(r)) \cup
                {[m EXCEPT !.correct_answer = r.body.answers] : m \in Found(r)},
              srvNextId)}

\* POST /api/v1/modules/{id}/quiz/submit
ServeSubmit(r) ==
  IF Found(r) = {} THEN {Unchanged(404, NoData)}
  ELSE {Unchanged(200, [NoData EXCEPT
          !.score = IF r.body.answers = m.correct_answer THEN 100 ELSE 0]) :
            m \in Found(r)}

\* POST /api/v1/chat
ServeChat(r) == {Unchanged(200, NoData)}

\* GET /api/v1/assignments/{id}/latex and .../pdf: the rendered file, or
\* an error when the module is not the caller's or holds no assignment text
ServeAssignment(r) ==
  IF Found(r) = {} THEN {Unchanged(404, NoData)}
  ELSE {Unchanged(200, [NoData EXCEPT !.blob = TRUE]), Unchanged(404, NoData)}

\* POST /api/v1/auth/register: the new user's record (no token: a login
\* follows), or a refusal when the email is taken or the body is invalid
ServeRegister(r) ==
  {Unchanged(200, [NoData EXCEPT !.user = r.body.email]),
   Unchanged(400, NoData)}

\* One request-response cycle: authenticate, then call the provider or the
\* store, then respond.  Status 0 stands for "no response" (network error or
\* the 30 s axios timeout); 500 for an upstream failure.
Serve(r) ==
  {Unchanged(0, NoData)} \cup
  (IF Protected(r.method) /\ ~TokenValid(r.auth) THEN {Unchanged(401, NoData)}
   ELSE {Unchanged(500, NoData)} \cup
        CASE r.method = "login" -> ServeLogin(r)
          [] r.method = "register" -> ServeRegister(r)
          [] r.method = "getCurrentUser" -> ServeMe(r)
          [] r.method = "generateModule" -> ServeGenerate(r)
          [] r.method = "getUserModules" -> ServeList(r)
          [] r.method = "getModule" -> ServeGet(r)
          [] r.method = "deleteModule" -> ServeDelete(r)
          [] r.method = "submitQuiz" -> ServeSubmit(r)
          [] r.method = "sendChatMessage" -> ServeChat(r)
          [] r.method = "getAssignmentLatex" -> ServeAssignment(r)
          [] r.method = "getAssignmentPdf" -> ServeAssignment(r)
          [] OTHER -> {})

----------------------------------------------------------------------------
(* ApiService (apiService.js) *)

NoHeaders == [Authorization |-> "none", credentials |-> NoToken]

\* an interceptor that never sets the header
RequestInterceptor_NoHeader(token) == NoHeaders

\* request interceptor: Authorization: Bearer <token> when a token is stored
RequestInterceptor(token) ==
  IF token # NoToken THEN [Authorization |-> "Bearer", credentials |-> token]
  ELSE NoHeaders

\* the token the service reads from a request's headers
BearerToken(headers) ==
  IF headers.Authorization = "Bearer" THEN headers.credentials ELSE NoToken

\* this.api.<verb>(url, body): id is the module id in the url (0: none);
\* auth is what the service makes of the headers
Request(method, id, body) ==
  [method |-> method, id |-> id, body |-> body,
   headers |-> RequestInterceptor(authToken),
   auth |-> BearerToken(RequestInterceptor(authToken))]

NoBody == [none |-> TRUE]

ApiLogin(email, password) ==
  Request("login", 0, [email |-> email, password |-> password])

ApiGetCurrentUser == Request("getCurrentUser", 0, NoBody)

ApiGenerateModule(prompt, difficulty, duration, backgroundKnowledge) ==
  Request("generateModule", 0,
          [prompt |-> prompt, background_knowledge |-> backgroundKnowledge,
           user_id |-> "null"])

ApiGetModule_OtherId(moduleId) == Request("getModule", moduleId + 1, NoBody)

ApiGetModule(moduleId) == Request("getModule", moduleId, NoBody)

ApiGetUserModules == Request("getUserModules", 0, NoBody)

ApiDeleteModule_OtherId(moduleId) ==
  Request("deleteModule", IF moduleId = 1 THEN 2 ELSE 1, NoBody)

ApiDeleteModule(moduleId) == Request("deleteModule", moduleId, NoBody)

ApiSubmitQuiz(moduleId, quizAnswer) ==
  Request("submitQuiz", moduleId, [answers |-> quizAnswer])

ApiGetAssignmentLatex(moduleId) == Request("getAssignmentLatex", moduleId, NoBody)

ApiGetAssignmentPdf(moduleId) == Request("getAssignmentPdf", moduleId, NoBody)

ApiSendChatMessage(message, moduleId) ==
  Request("sendChatMessage", 0, [message |-> message, current_module |-> moduleId])

\* a call awaiting its response: the awaiting handler, the argument it holds
\* in its closure, and the request axios sent
Pending(caller, arg, req) == [caller |-> caller, arg |-> arg, req |-> req]

\* isAuthenticated(): a stored token whose payload.exp * 1000 > Date.now()
ApiIsAuthenticated == authToken # NoToken /\ authToken.exp > now

ApiLogout_Keeps(token) == token

\* logout(): localStorage.removeItem('authToken')
ApiLogout(token) == NoToken

InterceptToken_Keeps(status, token) == token

\* response interceptor: the token and the location after a response of
\* the given status (0: no response)
InterceptToken(status, token) == IF status = 401 THEN ApiLogout(token) ELSE token
InterceptLocation(status, loc) == IF status = 401 THEN "/login" ELSE loc

\* axios rejects a response outside 2xx and a request without response; the
\* interceptor's error handler passes the rejection on (Promise.reject)
AxiosRejects(status) == status \notin 200..299
InterceptRejects(status) == TRUE

\* the awaited call returns (TRUE) or throws (FALSE)
Ok(resp) == ~(AxiosRejects(resp.status) /\ InterceptRejects(resp.status))

\* what the caller of an ApiService method sees once the call settles
Settled(c, resp) ==
  [method |-> c.req.method, caller |-> c.caller, arg |-> c.arg,
   auth |-> c.req.auth, body |-> c.req.body, status |-> resp.status,
   ok |-> Ok(resp),
   data |-> resp.data]

----------------------------------------------------------------------------
NotCalled == [called |-> FALSE]

\* apiService.old.js is not in use
OldIdle ==
  /\ MOCK_MODE = FALSE
  /\ quizModuleId = "0"
  /\ quizAnswers = <<>>
  /\ quizResult = NotCalled

\* EnhancedModules as first rendered
RouteIdle == route = "none"

RegIdle ==
  /\ formData = [password |-> "", confirmPassword |-> ""]
  /\ regLoading = FALSE
  /\ regError = ""
  /\ success = FALSE
  /\ regCalls = 0
  /\ regTimeouts = 0
  /\ regPath = "/register"

TokIdle ==
  /\ storedToken = <<>>
  /\ dateNow = 0
  /\ authCheck = [called |-> FALSE]

ChatIdle ==
  /\ currentInput = ""
  /\ isTyping = FALSE
  /\ chatCalls = <<>>

LpIdle ==
  /\ lpModule = [quiz_questions |-> 0]
  /\ quizQuestions = 0
  /\ quizMode = FALSE
  /\ lpCurrentQuestion = 0
  /\ chatMessages = <<>>
  /\ selectedAnswer = ""
  /\ lpQuizAnswers = <<>>
  /\ timeouts = <<>>

EmIdle ==
  /\ emModules = <<>>
  /\ emLoading = FALSE
  /\ emError = ""
  /\ newModuleData = [topic |-> "", difficulty |-> "Beginner"]
  /\ showCreateForm = FALSE
  /\ emRequests = {}

\* no ApiService call is being followed
ErrIdle ==
  /\ failure = [method |-> "none"]
  /\ reported = NotCalled

\* QuizPage is not on screen
QuizIdle ==
  /\ mounted = FALSE
  /\ module = NoModule
  /\ currentQuestion = 0
  /\ answers = <<>>
  /\ submitted = FALSE
  /\ results = "null"
  /\ quizLoading = TRUE
  /\ error = "null"
  /\ timeLeft = NullTime
  /\ quizStarted = FALSE
  /\ timerAnswers = <<>>
  /\ quizCalls = {}

\* what a previous session may have left in localStorage
StoredTokens == {NoToken} \cup [user : {"u1"}, exp : 0..1]

\* AuthProvider's mount effect: initAuth up to its await
InitAuthRequests ==
  IF ApiIsAuthenticated THEN {Pending("initAuth", 0, ApiGetCurrentUser)} ELSE {}

Init ==
  /\ authToken \in StoredTokens
  /\ location \in Paths
  /\ now = 0
  /\ inflight = InitAuthRequests
  /\ last = NoCall
  /\ user = NoUser
  /\ loading = ApiIsAuthenticated
  /\ isAuthenticated = FALSE
  /\ modules = <<>>
  /\ newModuleForm = DefaultForm
  /\ createLoading = FALSE
  /\ srvModules = {}
  /\ srvNextId = 1
  /\ generated = {}
  /\ deleted = {}
  /\ saved = 0
  /\ QuizIdle
  /\ OldIdle
  /\ ErrIdle
  /\ EmIdle
  /\ LpIdle
  /\ ChatIdle
  /\ TokIdle
  /\ RegIdle
  /\ RouteIdle

Send(c) ==
  /\ Cardinality(inflight) < MaxInFlight
  /\ c \notin inflight
  /\ inflight' = inflight \cup {c}
  /\ last' = NoCall

\* the part of a settled call that is the same for every caller: the server
\* acts, the response interceptor runs, the call is recorded
Settle(c, resp) ==
  /\ inflight' = inflight \ {c}
  /\ srvModules' = resp.modules
  /\ srvNextId' = resp.nextId
  /\ location' = InterceptLocation(resp.status, location)
  /\ last' = Settled(c, resp)

\* The app (re)loads: React state starts over and AuthProvider's mount effect
\* runs initAuth up to its await.  Requests of the page left behind are
\* aborted by the browser.
PageLoad(path) ==
  /\ UNCHANGED notApi
  /\ saved' = 0
  /\ last' = NoCall
  /\ location' = path
  /\ inflight' = InitAuthRequests
  /\ loading' = ApiIsAuthenticated
  /\ user' = NoUser
  /\ isAuthenticated' = FALSE
  /\ modules' = <<>>
  /\ newModuleForm' = DefaultForm
  /\ createLoading' = FALSE
  /\ UNCHANGED <<authToken, now, srvModules, srvNextId, generated, deleted>>

\* initAuth after `await apiService.getCurrentUser()`
InitAuthSettled(c, resp) ==
  /\ UNCHANGED notApi
  /\ saved' = 0
  /\ c.caller = "initAuth"
  /\ Settle(c, resp)
  /\ IF Ok(resp)
     THEN /\ user' = resp.data.user
          /\ isAuthenticated' = TRUE
          /\ authToken' = InterceptToken(resp.status, authToken)
     ELSE /\ user' = NoUser
          /\ isAuthenticated' = FALSE
          /\ authToken' = ApiLogout(InterceptToken(resp.status, authToken))
  /\ loading' = FALSE
  /\ UNCHANGED <<now, modules, newModuleForm, createLoading, generated, deleted>>

\* AuthProvider.login up to its await
Login(email, password) ==
  /\ UNCHANGED notApi
  /\ saved' = 0
  /\ Send(Pending("login", 0, ApiLogin(email, password)))
  /\ loading' = TRUE
  /\ UNCHANGED <<authToken, location, now, user, isAuthenticated,
                 modules, newModuleForm, createLoading, srvModules, srvNextId,
                 generated, deleted>>

\* ApiService.login after its await, then AuthProvider.login
LoginSettled(c, resp) ==
  /\ UNCHANGED notApi
  /\ saved' = 0
  /\ c.caller = "login"
  /\ Settle(c, resp)
  /\ IF Ok(resp)
     THEN /\ authToken' = resp.data.token
          /\ user' = resp.data.user
          /\ isAuthenticated' = TRUE
     ELSE /\ authToken' = InterceptToken(resp.status, authToken)
          /\ UNCHANGED <<user, isAuthenticated>>
  /\ loading' = FALSE
  /\ UNCHANGED <<now, modules, newModuleForm, createLoading, generated, deleted>>

\* AuthProvider.logout
Logout ==
  /\ UNCHANGED notApi
  /\ saved' = 0
  /\ last' = NoCall
  /\ isAuthenticated
  /\ authToken' = ApiLogout(authToken)
  /\ user' = NoUser
  /\ isAuthenticated' = FALSE
  /\ UNCHANGED <<location, now, inflight, loading, modules,
                 newModuleForm, createLoading, srvModules, srvNextId,
                 generated, deleted>>

\* Dashboard.loadModules up to its await
LoadModules ==
  /\ UNCHANGED notApi
  /\ saved' = 0
  /\ isAuthenticated
  /\ Send(Pending("loadModules", 0, ApiGetUserModules))
  /\ UNCHANGED <<authToken, location, now, user, loading,
                 isAuthenticated, modules, newModuleForm, createLoading,
                 srvModules, srvNextId, generated, deleted>>

\* the rows of a list response as the Dashboard keeps them (newest first)
RECURSIVE NewestFirst(_)
NewestFirst(ids) ==
  IF ids = {} THEN <<>>
  ELSE LET top == CHOOSE i \in ids : \A j \in ids : j <= i
       IN  <<top>> \o NewestFirst(ids \ {top})

\* Dashboard.loadModules after its await
LoadModulesSettled(c, resp) ==
  /\ UNCHANGED notApi
  /\ saved' = 0
  /\ c.caller = "loadModules"
  /\ Settle(c, resp)
  /\ authToken' = InterceptToken(resp.status, authToken)
  /\ modules' = IF Ok(resp) THEN NewestFirst(Ids(resp.data.modules)) ELSE modules
  /\ UNCHANGED <<now, user, loading, isAuthenticated, newModuleForm,
                 createLoading, generated, deleted>>

\* the create form's onChange handlers
SetForm(prompt, difficulty, duration) ==
  /\ UNCHANGED notApi
  /\ saved' = 0
  /\ last' = NoCall
  /\ isAuthenticated
  /\ newModuleForm' = [prompt |-> prompt, difficulty |-> difficulty,
                       duration |-> duration]
  /\ UNCHANGED <<authToken, location, now, inflight, user,
                 loading, isAuthenticated, modules, createLoading, srvModules,
                 srvNextId, generated, deleted>>

\* Dashboard.handleCreateModule up to its await (the prompt input is
\* `required`, the submit button is disabled while createLoading)
HandleCreateModule ==
  /\ UNCHANGED notApi
  /\ saved' = 0
  /\ isAuthenticated
  /\ ~createLoading
  /\ newModuleForm.prompt # ""
  /\ Send(Pending("handleCreateModule", 0,
                  ApiGenerateModule(newModuleForm.prompt, newModuleForm.difficulty,
                                    newModuleForm.duration, "")))
  /\ createLoading' = TRUE
  /\ UNCHANGED <<authToken, location, now, user, loading,
                 isAuthenticated, modules, newModuleForm, srvModules,
                 srvNextId, generated, deleted>>

\* Dashboard.handleCreateModule after `await apiService.generateModule`.
\* A response without {success, module} makes it await loadModules(); the
\* rest of the handler runs when that call has settled.
CreateSettled(c, resp) ==
  /\ UNCHANGED notApi
  /\ saved' = 0
  /\ c.caller = "handleCreateModule"
  /\ srvModules' = resp.modules
  /\ srvNextId' = resp.nextId
  /\ location' = InterceptLocation(resp.status, location)
  /\ last' = Settled(c, resp)
  /\ authToken' = InterceptToken(resp.status, authToken)
  /\ generated' = IF Ok(resp) THEN generated \cup resp.data.modules ELSE generated
  /\ IF ~Ok(resp)
     THEN /\ inflight' = inflight \ {c}
          /\ createLoading' = FALSE
          /\ UNCHANGED <<modules, newModuleForm>>
     ELSE IF resp.data.wrapped
     THEN /\ modules' = <<(CHOOSE m \in resp.data.modules : TRUE).id>> \o modules
          /\ inflight' = inflight \ {c}
          /\ newModuleForm' = DefaultForm
          /\ createLoading' = FALSE
     ELSE /\ inflight' = (inflight \ {c}) \cup
                         {Pending("createReload", 0, ApiGetUserModules)}
          /\ UNCHANGED <<modules, newModuleForm, createLoading>>
  /\ UNCHANGED <<now, user, loading, isAuthenticated, deleted>>

\* loadModules awaited by handleCreateModule, and the handler's remainder
CreateReloadSettled(c, resp) ==
  /\ UNCHANGED notApi
  /\ saved' = 0
  /\ c.caller = "createReload"
  /\ Settle(c, resp)
  /\ authToken' = InterceptToken(resp.status, authToken)
  /\ modules' = IF Ok(resp) THEN NewestFirst(Ids(resp.data.modules)) ELSE modules
  /\ newModuleForm' = DefaultForm
  /\ createLoading' = FALSE
  /\ UNCHANGED <<now, user, loading, isAuthenticated, generated, deleted>>

InList(id) == \E i \in 1..Len(modules) : modules[i] = id

Filter_RemovesAll(seq, id) == <<>>

\* prev.filter(module => module.id !== moduleId)
RECURSIVE Filter(_, _)
Filter(seq, id) ==
  IF seq = <<>> THEN <<>>
  ELSE (IF Head(seq) # id THEN <<Head(seq)>> ELSE <<>>) \o Filter(Tail(seq), id)

\* Dashboard.handleDeleteModule up to its await; confirmed is what
\* window.confirm returned
HandleDeleteModule(moduleId, confirmed) ==
  /\ UNCHANGED notApi
  /\ saved' = 0
  /\ isAuthenticated
  /\ InList(moduleId)
  /\ IF confirmed
     THEN Send(Pending("handleDeleteModule", moduleId, ApiDeleteModule(moduleId)))
     ELSE /\ last' = NoCall
          /\ UNCHANGED inflight
  /\ UNCHANGED <<authToken, location, now, user, loading,
                 isAuthenticated, modules, newModuleForm, createLoading,
                 srvModules, srvNextId, generated, deleted>>

\* Dashboard.handleDeleteModule after its await
DeleteSettled(c, resp) ==
  /\ UNCHANGED notApi
  /\ saved' = 0
  /\ c.caller = "handleDeleteModule"
  /\ Settle(c, resp)
  /\ authToken' = InterceptToken(resp.status, authToken)
  /\ modules' = IF Ok(resp) THEN Filter(modules, c.arg) ELSE modules
  /\ deleted' = IF Ok(resp) THEN deleted \cup {c.arg} ELSE deleted
  /\ UNCHANGED <<now, user, loading, isAuthenticated, newModuleForm,
                 createLoading, generated>>

\* ModuleDetailPage / LearningPage / QuizPage loadModule up to its await:
\* the id is the route parameter
LoadModule(moduleId) ==
  /\ UNCHANGED notApi
  /\ saved' = 0
  /\ isAuthenticated
  /\ Send(Pending("loadModule", moduleId, ApiGetModule(moduleId)))
  /\ UNCHANGED <<authToken, location, now, user, loading,
                 isAuthenticated, modules, newModuleForm, createLoading,
                 srvModules, srvNextId, generated, deleted>>

LoadModuleSettled(c, resp) ==
  /\ UNCHANGED notApi
  /\ saved' = 0
  /\ c.caller = "loadModule"
  /\ Settle(c, resp)
  /\ authToken' = InterceptToken(resp.status, authToken)
  /\ UNCHANGED <<now, user, loading, isAuthenticated, modules, newModuleForm,
                 createLoading, generated, deleted>>

\* QuizPage.handleSubmit / LearningPage.handleQuizSubmit up to the await:
\* the id is the route parameter
SubmitQuiz(moduleId, quizAnswer) ==
  /\ UNCHANGED notApi
  /\ saved' = 0
  /\ isAuthenticated
  /\ Send(Pending("handleSubmit", moduleId, ApiSubmitQuiz(moduleId, quizAnswer)))
  /\ UNCHANGED <<authToken, location, now, user, loading,
                 isAuthenticated, modules, newModuleForm, createLoading,
                 srvModules, srvNextId, generated, deleted>>

\* LearningPage.handleSendMessage up to its await
SendMessage(moduleId) ==
  /\ UNCHANGED notApi
  /\ saved' = 0
  /\ isAuthenticated
  /\ Send(Pending("handleSendMessage", moduleId,
                  ApiSendChatMessage("hello", moduleId)))
  /\ UNCHANGED <<authToken, location, now, user, loading,
                 isAuthenticated, modules, newModuleForm, createLoading,
                 srvModules, srvNextId, generated, deleted>>

\* apiService.getAssignmentLatex(moduleId)
GetAssignmentLatex(moduleId) ==
  /\ UNCHANGED notApi
  /\ saved' = 0
  /\ isAuthenticated
  /\ Send(Pending("getAssignmentLatex", moduleId, ApiGetAssignmentLatex(moduleId)))
  /\ UNCHANGED <<authToken, location, now, user, loading,
                 isAuthenticated, modules, newModuleForm, createLoading,
                 srvModules, srvNextId, generated, deleted>>

\* the three calls above once settled: none of them touches the state of
\* AuthProvider or Dashboard
ReadSettled(c, resp) ==
  /\ UNCHANGED notApi
  /\ saved' = 0
  /\ c.caller \in {"handleSubmit", "handleSendMessage", "getAssignmentLatex"}
  /\ Settle(c, resp)
  /\ authToken' = InterceptToken(resp.status, authToken)
  /\ UNCHANGED <<now, user, loading, isAuthenticated, modules, newModuleForm,
                 createLoading, generated, deleted>>

\* Dashboard.handleDownloadPDF up to its await
HandleDownloadPDF(moduleId) ==
  /\ UNCHANGED notApi
  /\ saved' = 0
  /\ isAuthenticated
  /\ InList(moduleId)
  /\ Send(Pending("handleDownloadPDF", moduleId, ApiGetAssignmentPdf(moduleId)))
  /\ UNCHANGED <<authToken, location, now, user, loading,
                 isAuthenticated, modules, newModuleForm, createLoading,
                 srvModules, srvNextId, generated, deleted>>

\* a handler that saves whatever the call left it with
SavedFile_Always(moduleId, ok) == moduleId

\* what Dashboard.handleDownloadPDF hands to the browser (a.click()) after
\* its await: the blob when the call returned, nothing when it threw
SavedFile(moduleId, ok) == IF ok THEN moduleId ELSE 0

\* Dashboard.handleDownloadPDF after its await
DownloadSettled(c, resp) ==
  /\ UNCHANGED notApi
  /\ c.caller = "handleDownloadPDF"
  /\ Settle(c, resp)
  /\ authToken' = InterceptToken(resp.status, authToken)
  /\ saved' = SavedFile(c.arg, Ok(resp))
  /\ UNCHANGED <<now, user, loading, isAuthenticated, modules, newModuleForm,
                 createLoading, generated, deleted>>

Tick ==
  /\ UNCHANGED notApi
  /\ saved' = 0
  /\ last' = NoCall
  /\ now < MaxTime
  /\ now' = now + 1
  /\ UNCHANGED <<authToken, location, inflight, user, loading,
                 isAuthenticated, modules, newModuleForm, createLoading,
                 srvModules, srvNextId, generated, deleted>>

Next ==
  \/ \E path \in Paths : PageLoad(path)
  \/ \E u \in Users, pw \in {"right", "wrong"} : Login(u, pw)
  \/ \E c \in inflight : \E resp \in Serve(c.req) : InitAuthSettled(c, resp)
  \/ \E c \in inflight : \E resp \in Serve(c.req) : LoginSettled(c, resp)
  \/ Logout
  \/ LoadModules
  \/ \E c \in inflight : \E resp \in Serve(c.req) : LoadModulesSettled(c, resp)
  \/ \E p \in Prompts, d \in Difficulties, n \in Durations : SetForm(p, d, n)
  \/ HandleCreateModule
  \/ \E c \in inflight : \E resp \in Serve(c.req) : CreateSettled(c, resp)
  \/ \E c \in inflight : \E resp \in Serve(c.req) : CreateReloadSettled(c, resp)
  \/ \E id \in 1..MaxModules, confirmed \in BOOLEAN : HandleDeleteModule(id, confirmed)
  \/ \E c \in inflight : \E resp \in Serve(c.req) : DeleteSettled(c, resp)
  \/ \E id \in 1..MaxModules : LoadModule(id)
  \/ \E c \in inflight : \E resp \in Serve(c.req) : LoadModuleSettled(c, resp)
  \/ \E id \in 1..MaxModules, a \in QuizAnswers : SubmitQuiz(id, a)
  \/ \E id \in 1..MaxModules : SendMessage(id)
  \/ \E id \in 1..MaxModules : GetAssignmentLatex(id)
  \/ \E c \in inflight : \E resp \in Serve(c.req) : ReadSettled(c, resp)
  \/ \E id \in 1..MaxModules : HandleDownloadPDF(id)
  \/ \E c \in inflight : \E resp \in Serve(c.req) : DownloadSettled(c, resp)
  \/ Tick

Spec == Init /\ [][Next]_vars

----------------------------------------------------------------------------
(* Claims checked under Spec *)

\* modules generated for user u and not deleted since
Live(u) == {g \in generated : g.owner = u /\ g.id \notin deleted}

\* C1: a successful generation returns a module owned by the requesting user
\* and persisted; every later successful list call by that user contains it,
\* and a later get of its id by that user is never answered 404 and, when it
\* succeeds, returns that module (until the module is deleted).
C1_GeneratedModulePersists ==
  /\ (last.caller = "handleCreateModule" /\ last.ok) =>
        /\ last.data.modules # {}
        /\ \A m \in last.data.modules :
             m.owner = last.auth.user /\ m \in srvModules /\ m \in generated
  /\ (last.method = "getUserModules" /\ last.ok) =>
        Live(last.auth.user) \subseteq last.data.modules
  /\ (last.method = "getModule" /\ last.arg \in Ids(Live(last.auth.user))) =>
        /\ last.status # 404
        /\ last.ok => Ids(last.data.modules) = {last.arg}

C1_Witness ==
  /\ last.method = "getUserModules" /\ last.ok
  /\ Live(last.auth.user) # {}
  /\ deleted # {}

\* C2: once the server has confirmed a deletion, no successful list contains
\* the module and no get of its id succeeds: a get that reaches the store
\* with a valid token is answered 404.
C2_DeletedModuleIsGone ==
  /\ (last.method = "getUserModules" /\ last.ok) =>
        Ids(last.data.modules) \cap deleted = {}
  /\ (last.method = "getModule" /\ last.arg \in deleted) =>
        /\ ~last.ok
        /\ last.status \in {404, 401, 500, 0}
        /\ (TokenValid(last.auth) /\ last.status \notin {500, 0}) => last.status = 404

C2_Witness ==
  last.method = "getModule" /\ last.arg \in deleted /\ last.status = 404

\* C5: a protected endpoint answers a request whose bearer token is missing
\* or expired with 401, and the modules in any response are owned by the
\* user the request's token names.
C5_NoTokenNoModules ==
  /\ (Protected(last.method) /\ last.method # "none" /\ ~TokenValid(last.auth)
        /\ last.status # 0) => last.status = 401
  /\ \A m \in last.data.modules : m.owner = last.auth.user

C5_Witness ==
  /\ last.method = "getUserModules" /\ last.ok
  /\ \E m \in srvModules : m.owner # last.auth.user
  /\ \E m \in srvModules : m.owner = last.auth.user

\* C6: a response with status 401 removes the stored token, sends the
\* browser to /login, and the call still fails towards its caller.
C6_UnauthorizedLogsOut ==
  last.status = 401 =>
    authToken = NoToken /\ location = "/login" /\ ~last.ok

C6_Witness ==
  /\ last.status = 401 /\ last.caller = "loadModules"
  /\ last.auth.user \in Users /\ isAuthenticated

\* C7 (as claimed): a call that fails with anything but 401 leaves the stored
\* token unchanged.
C7_OnlyUnauthorizedLogsOut ==
  [][(last'.method # "none" /\ ~last'.ok /\ last'.status # 401)
       => authToken' = authToken]_vars

\* C8 (as claimed): the body of every generation request sent carries the
\* form's prompt, difficulty and duration, and background_knowledge.
C8_GenerateBodyCarriesForm ==
  [][\A c \in inflight' \ inflight :
       c.req.method = "generateModule" =>
         /\ {"prompt", "difficulty", "duration", "background_knowledge"}
              \subseteq DOMAIN c.req.body
         /\ c.req.body.prompt = newModuleForm.prompt
         /\ c.req.body.difficulty = newModuleForm.difficulty
         /\ c.req.body.duration = newModuleForm.duration]_vars

\* C13: every stored module row is the row as it was generated (its quiz
\* included), whatever calls the client has made since, and every
\* successful quiz submission is graded against the generated quiz of the
\* module it names.
C13_QuizQuestionsFixed ==
  /\ \A m \in srvModules : m \in generated
  /\ (last.method = "submitQuiz" /\ last.ok) =>
       \E g \in generated :
         /\ g.id = last.arg /\ g.id \notin deleted
         /\ last.data.score =
              IF last.body.answers = g.correct_answer THEN 100 ELSE 0

C13_Witness ==
  /\ last.method = "submitQuiz" /\ last.ok /\ last.data.score = 0
  /\ Cardinality(srvModules) = 2

\* C14 (as claimed): the step that settles a login leaves the stored token
\* equal to the returned access_token when the login succeeded, and leaves
\* the token, isAuthenticated and user as they were when it failed.
C14_LoginTokenOutcome ==
  [][last'.caller = "login" =>
       IF last'.ok
       THEN authToken' = last'.data.token
       ELSE /\ authToken' = authToken
            /\ isAuthenticated' = isAuthenticated
            /\ user' = user]_vars

\* C15: every request sent carries Authorization: Bearer <the token stored
\* when it is sent> if a token is stored, and no Authorization header if
\* none is.
C15_BearerHeader ==
  [][\A c \in inflight' \ inflight :
       IF authToken # NoToken
       THEN c.req.headers = [Authorization |-> "Bearer", credentials |-> authToken]
       ELSE c.req.headers.Authorization = "none"]_vars

C15_Witness ==
  \E c \in inflight :
    /\ c.req.method = "submitQuiz"
    /\ c.req.headers = [Authorization |-> "Bearer", credentials |-> authToken]
    /\ authToken.user = "u2"

\* C18: a PDF request that fails (as the one for a module without
\* assignment text does) makes handleDownloadPDF save no file; a file is
\* saved only for a request that returned a blob, and it is that module's.
C18_NoDownloadOnFailure ==
  /\ (last.caller = "handleDownloadPDF" /\ ~last.ok) => saved = 0
  /\ saved # 0 =>
       /\ last.caller = "handleDownloadPDF" /\ last.method = "getAssignmentPdf"
       /\ last.ok /\ last.data.blob
       /\ saved = last.arg

C18_Witness ==
  /\ last.caller = "handleDownloadPDF" /\ last.status = 404
  /\ \E m \in srvModules : m.id = last.arg /\ m.owner = last.auth.user
  /\ saved = 0

KeepsAllBut(seq, id) == SelectSeq(seq, LAMBDA x : x # id)

\* C24: declining the confirmation sends nothing and changes nothing; a
\* delete request is sent only by a confirmed handleDeleteModule; when the
\* request fails the local list is unchanged, and when it succeeds the list
\* loses the module with that id and nothing else.
C24_DeleteRemovesOnlyConfirmed ==
  /\ [][(\E id \in 1..MaxModules : HandleDeleteModule(id, FALSE)) =>
          inflight' = inflight /\ modules' = modules]_vars
  /\ [][\A c \in inflight' \ inflight :
          c.req.method = "deleteModule" =>
            /\ HandleDeleteModule(c.arg, TRUE)
            /\ c.req.id = c.arg
            /\ modules' = modules]_vars
  /\ [][last'.caller = "handleDeleteModule" =>
          modules' = IF last'.ok THEN KeepsAllBut(modules, last'.arg)
                     ELSE modules]_vars

\* a confirmed deletion succeeded and left the other module in the list
C24_Witness ==
  /\ last.caller = "handleDeleteModule" /\ last.ok
  /\ Len(modules) = 1
  /\ modules[1] # last.arg

----------------------------------------------------------------------------
(* QuizPage *)

MaxQuestions == 2        \* quiz questions of the module on the page
SecondsPerQuestion == 120
Options == {"A"}         \* what a radio button of the question shown selects

\* the session a QuizPage is opened in: an authenticated user on /quiz/:id
QuizSession ==
  /\ authToken = [user |-> "u1", exp |-> 1]
  /\ location = "/quiz"
  /\ now = 0
  /\ inflight = {}
  /\ last = NoCall
  /\ user = "u1"
  /\ loading = FALSE
  /\ isAuthenticated = TRUE
  /\ modules = <<>>
  /\ newModuleForm = DefaultForm
  /\ createLoading = FALSE
  /\ srvModules = {}
  /\ srvNextId = 1
  /\ generated = {}
  /\ deleted = {}
  /\ saved = 0

\* the variables a QuizPage step leaves alone
notQuiz == <<authToken, location, now, inflight, last, user, loading,
             isAuthenticated, modules, newModuleForm, createLoading,
             srvModules, srvNextId, generated, deleted, saved, oldVars,
             errVars, emVars, lpVars, chatVars, tokVars, regVars, routeVars>>

\* a call of apiService awaited by the component; byTimer: handleSubmit was
\* called by the interval's callback
QuizCall(method, body) == [method |-> method, body |-> body, byTimer |-> FALSE]

\* QuizPage's state after its first render and mount effect: loadModule has
\* run up to its await
QuizFresh ==
  /\ mounted = TRUE
  /\ module = NoModule
  /\ currentQuestion = 0
  /\ answers = <<>>
  /\ submitted = FALSE
  /\ results = "null"
  /\ quizLoading = TRUE
  /\ error = "null"
  /\ timeLeft = NullTime
  /\ quizStarted = FALSE
  /\ timerAnswers = <<>>
  /\ quizCalls = {QuizCall("getModule", <<>>)}

QuizInit == QuizSession /\ QuizFresh /\ OldIdle /\ ErrIdle /\ EmIdle /\ LpIdle
  /\ ChatIdle
  /\ TokIdle
  /\ RegIdle
  /\ RouteIdle

\* which of the component's screens the render shows
HasQuiz == module # NoModule /\ module.quiz_questions > 0
ShowsError == error # "null"
ShowsStart == ~ShowsError /\ HasQuiz /\ ~quizStarted /\ ~submitted
ShowsResults ==
  ~ShowsError /\ HasQuiz /\ ~ShowsStart /\ submitted /\ results # "null"
ShowsQuestion == ~ShowsError /\ HasQuiz /\ ~ShowsStart /\ ~ShowsResults

\* a timer effect that starts its interval whatever quizStarted and
\* submitted are
TimerRunning_IgnoresState == mounted /\ timeLeft > 0

\* the timer effect's condition: an interval is running exactly when it held
\* at the last run of the effect, and the effect runs again whenever
\* quizStarted, timeLeft or submitted changes
TimerRunning == mounted /\ quizStarted /\ timeLeft > 0 /\ ~submitted

\* the closure of the interval after a step: the effect runs again, and
\* captures the new render's handleSubmit, only when one of its
\* dependencies changed
TimerClosure ==
  timerAnswers' =
    IF <<quizStarted', timeLeft', submitted'>> # <<quizStarted, timeLeft, submitted>>
    THEN answers' ELSE timerAnswers

\* loadModule after `await apiService.getModule(moduleId)`
QuizLoadSettled(c, ok, n) ==
  /\ mounted /\ c \in quizCalls /\ c.method = "getModule"
  /\ quizCalls' = quizCalls \ {c}
  /\ IF ok
     THEN /\ module' = [quiz_questions |-> n]
          /\ timeLeft' = IF n > 0 THEN n * SecondsPerQuestion ELSE timeLeft
          /\ error' = error
     ELSE /\ error' = "Failed to load quiz. Please try again."
          /\ UNCHANGED <<module, timeLeft>>
  /\ quizLoading' = FALSE
  /\ UNCHANGED <<mounted, currentQuestion, answers, submitted, results,
                 quizStarted>>
  /\ TimerClosure
  /\ UNCHANGED notQuiz

startQuiz ==
  /\ mounted /\ ShowsStart
  /\ quizStarted' = TRUE
  /\ currentQuestion' = 0
  /\ answers' = <<>>
  /\ submitted' = FALSE
  /\ results' = "null"
  /\ UNCHANGED <<mounted, module, quizLoading, error, timeLeft, quizCalls>>
  /\ TimerClosure
  /\ UNCHANGED notQuiz

\* the radio button of an option of the question shown
handleAnswerSelect(questionIndex, answer) ==
  /\ mounted /\ ShowsQuestion
  /\ questionIndex = currentQuestion
  /\ answers' = [i \in DOMAIN answers \cup {questionIndex} |->
                   IF i = questionIndex THEN answer ELSE answers[i]]
  /\ UNCHANGED <<mounted, module, currentQuestion, submitted, results,
                 quizLoading, error, timeLeft, quizStarted, quizCalls>>
  /\ TimerClosure
  /\ UNCHANGED notQuiz

nextQuestion ==
  /\ mounted /\ ShowsQuestion
  /\ currentQuestion < module.quiz_questions - 1
  /\ currentQuestion' = currentQuestion + 1
  /\ UNCHANGED <<mounted, module, answers, submitted, results, quizLoading,
                 error, timeLeft, quizStarted, quizCalls>>
  /\ TimerClosure
  /\ UNCHANGED notQuiz

prevQuestion ==
  /\ mounted /\ ShowsQuestion
  /\ currentQuestion > 0
  /\ currentQuestion' = currentQuestion - 1
  /\ UNCHANGED <<mounted, module, answers, submitted, results, quizLoading,
                 error, timeLeft, quizStarted, quizCalls>>
  /\ TimerClosure
  /\ UNCHANGED notQuiz

\* handleSubmit up to its await, with the answers its closure holds
handleSubmit(closureAnswers, byTimer) ==
  /\ quizLoading' = TRUE
  /\ quizCalls' = quizCalls \cup
       {[QuizCall("submitQuiz", closureAnswers) EXCEPT !.byTimer = byTimer]}

\* the Submit Quiz button: shown on the last question, disabled while no
\* answer is selected or `loading`
SubmitClick ==
  /\ mounted /\ ShowsQuestion
  /\ currentQuestion = module.quiz_questions - 1
  /\ DOMAIN answers # {}
  /\ ~quizLoading
  /\ handleSubmit(answers, FALSE)
  /\ UNCHANGED <<mounted, module, currentQuestion, answers, submitted, results,
                 error, timeLeft, quizStarted>>
  /\ TimerClosure
  /\ UNCHANGED notQuiz

\* the interval's callback: setTimeLeft(prev => ...)
TimerTick ==
  /\ TimerRunning
  /\ IF timeLeft <= 1
     THEN /\ handleSubmit(timerAnswers, TRUE)
          /\ timeLeft' = 0
     ELSE /\ timeLeft' = timeLeft - 1
          /\ UNCHANGED <<quizLoading, quizCalls>>
  /\ UNCHANGED <<mounted, module, currentQuestion, answers, submitted, results,
                 error, quizStarted>>
  /\ TimerClosure
  /\ UNCHANGED notQuiz

\* handleSubmit after `await apiService.submitQuiz(moduleId, answers)`
QuizSubmitSettled(c, ok) ==
  /\ mounted /\ c \in quizCalls /\ c.method = "submitQuiz"
  /\ quizCalls' = quizCalls \ {c}
  /\ IF ok
     THEN /\ results' = "results"
          /\ submitted' = TRUE
          /\ quizStarted' = FALSE
          /\ error' = error
     ELSE /\ error' = "Failed to submit quiz. Please try again."
          /\ UNCHANGED <<results, submitted, quizStarted>>
  /\ quizLoading' = FALSE
  /\ UNCHANGED <<mounted, module, currentQuestion, answers, timeLeft>>
  /\ TimerClosure
  /\ UNCHANGED notQuiz

\* the Retake Quiz button of the results screen
RetakeClick ==
  /\ mounted /\ ShowsResults
  /\ submitted' = FALSE
  /\ results' = "null"
  /\ quizStarted' = FALSE
  /\ answers' = <<>>
  /\ currentQuestion' = 0
  /\ UNCHANGED <<mounted, module, quizLoading, error, timeLeft, quizCalls>>
  /\ TimerClosure
  /\ UNCHANGED notQuiz

\* the page is left or reloaded: the effect's cleanup clears the interval,
\* the component's state is gone, and what calls still in flight settle
\* with reaches no component
QuizUnmount ==
  /\ mounted
  /\ mounted' = FALSE
  /\ module' = NoModule
  /\ currentQuestion' = 0
  /\ answers' = <<>>
  /\ submitted' = FALSE
  /\ results' = "null"
  /\ quizLoading' = TRUE
  /\ error' = "null"
  /\ timeLeft' = NullTime
  /\ quizStarted' = FALSE
  /\ timerAnswers' = <<>>
  /\ quizCalls' = {}
  /\ UNCHANGED notQuiz

\* the page is opened again
QuizMount ==
  /\ ~mounted
  /\ isAuthenticated
  /\ mounted' = TRUE
  /\ quizCalls' = {QuizCall("getModule", <<>>)}
  /\ UNCHANGED <<module, currentQuestion, answers, submitted, results,
                 quizLoading, error, timeLeft, quizStarted, timerAnswers>>
  /\ UNCHANGED notQuiz

QuizNext ==
  \/ \E c \in quizCalls, ok \in BOOLEAN, n \in 0..MaxQuestions :
       QuizLoadSettled(c, ok, n)
  \/ startQuiz
  \/ \E o \in Options : handleAnswerSelect(currentQuestion, o)
  \/ nextQuestion
  \/ prevQuestion
  \/ SubmitClick
  \/ TimerTick
  \/ \E c \in quizCalls, ok \in BOOLEAN : QuizSubmitSettled(c, ok)
  \/ RetakeClick
  \/ QuizUnmount
  \/ QuizMount

QuizSpec == QuizInit /\ [][QuizNext]_vars

----------------------------------------------------------------------------
(* Claims checked under QuizSpec *)

\* C9 (as claimed): a submission issued by the countdown's expiry carries
\* the answers selected up to that moment.
C9_ExpirySubmitsCollectedAnswers ==
  [][\A c \in quizCalls' \ quizCalls :
       (c.method = "submitQuiz" /\ c.byTimer) => c.body = answers]_vars

\* C10: in no step taken while submitted = true, or while the page is
\* unmounted, is timeLeft decremented or a submission issued by the timer.
C10_CountdownCancelled ==
  [][(submitted \/ ~mounted) =>
       /\ (timeLeft' >= timeLeft \/ timeLeft' = NullTime)
       /\ \A c \in quizCalls' \ quizCalls : ~c.byTimer]_vars

C10_Witness == mounted /\ submitted /\ timeLeft > 0 /\ results # "null"

\* C11 (as claimed): at most one quiz-submission request of QuizPage is in
\* flight at any time.
C11_OneSubmissionInFlight ==
  Cardinality({c \in quizCalls : c.method = "submitQuiz"}) <= 1

\* C16 (as claimed): once a quiz submission has failed, the page sends no
\* further submission on its own (the failure screen offers the user only a
\* reload).
C16_NoResendAfterFailure ==
  [][error = "Failed to submit quiz. Please try again." =>
       \A c \in quizCalls' \ quizCalls : c.method # "submitQuiz"]_vars

\* C19 (as claimed): every step that starts the quiz leaves the countdown at
\* 120 seconds times the number of quiz questions.
C19_StartAtFullTime ==
  [][(~quizStarted /\ quizStarted') =>
       timeLeft' = SecondsPerQuestion * module.quiz_questions]_vars

----------------------------------------------------------------------------
(* apiService.old.js: submitQuiz *)

Question(options, correct_answer) ==
  [options |-> options, correct_answer |-> correct_answer]

\* mockModules: id and quiz_questions of each entry
mockModules ==
  << [id |-> "1", quiz_questions |-> <<
        Question({"React 16.6", "React 16.8", "React 17.0", "React 18.0"},
                 "React 16.8"),
        Question({"useEffect", "useState", "useContext", "useReducer"},
                 "useState"),
        Question({"Better performance", "Reusable stateful logic",
                  "Smaller bundle size", "TypeScript support"},
                 "Reusable stateful logic") >>],
     [id |-> "2", quiz_questions |-> <<
        Question({"() => {}", "function() {}", "=> () {}", "() -> {}"},
                 "() => {}"),
        Question({"Arrow functions", "Template literals", "Destructuring",
                  "Promises"},
                 "Template literals") >>],
     [id |-> "3", quiz_questions |-> <<
        Question({"Tuple", "String", "List", "Integer"}, "List"),
        Question({"List", "Tuple", "Set", "Dictionary"}, "Dictionary"),
        Question({"List", "Tuple", "Set", "Dictionary"}, "Set") >>] >>

ModuleIds == {mockModules[i].id : i \in 1..Len(mockModules)}

\* the quiz questions of the module with this id
QuestionsOf(id) ==
  mockModules[CHOOSE i \in 1..Len(mockModules) : mockModules[i].id = id].quiz_questions

\* question i (counted from 0, as the answers object's keys are)
QuestionAt(id, i) == QuestionsOf(id)[i + 1]

\* String.prototype.includes
Includes(s, sub) ==
  \E i \in 1..(Len(s) - Len(sub) + 1) : SubSeq(s, i, i + Len(sub) - 1) = sub

\* a JavaScript quotient a / b of counts, kept exact: 0 / 0 is NaN
Div(a, b) == [num |-> a, den |-> b]
Times100(x) == [num |-> x.num * 100, den |-> x.den]
\* x >= k, false for NaN
AtLeast(x, k) == x.den > 0 /\ x.num >= k * x.den

Feedback(score) ==
  IF AtLeast(score, 80) THEN "Excellent work!"
  ELSE IF AtLeast(score, 60) THEN "Good job!" ELSE "Keep practicing!"

\* the filter of the MOCK_MODE branch
MockCountsAsCorrect(answer) ==
  Includes(answer, "correct") \/ Includes(answer, "React 16.8")
    \/ Includes(answer, "useState")

\* submitQuiz, MOCK_MODE branch
MockSubmitQuiz(id, ans) ==
  LET correctCount == Cardinality({k \in DOMAIN ans : MockCountsAsCorrect(ans[k])})
      totalQuestions == Cardinality(DOMAIN ans)
      score == Times100(Div(correctCount, totalQuestions))
  IN  [called |-> TRUE, threw |-> FALSE, score |-> score,
       correct_answers |-> correctCount, total_questions |-> totalQuestions,
       feedback |-> Feedback(score)]

\* LearningPage.handleAnswerSelect: isCorrect
isCorrect(answer, question) == answer = question.correct_answer

\* POST /api/v1/quizzes/submit as the design document describes the
\* endpoint: the percentage of the module's questions answered correctly
ServeQuizSubmit(id, ans) ==
  LET correctCount ==
        Cardinality({k \in DOMAIN ans : isCorrect(ans[k], QuestionAt(id, k))})
      totalQuestions == Len(QuestionsOf(id))
      score == Times100(Div(correctCount, totalQuestions))
  IN  [called |-> TRUE, threw |-> FALSE, score |-> score,
       correct_answers |-> correctCount, total_questions |-> totalQuestions,
       feedback |-> Feedback(score)]

Threw == [called |-> TRUE, threw |-> TRUE]

\* the answer objects the quiz pages can build for a module: an option of
\* the question for each question answered
AnswerMaps(id) ==
  UNION {[ks -> UNION {QuestionAt(id, k).options : k \in ks}] :
           ks \in SUBSET (0..(Len(QuestionsOf(id)) - 1))}

ValidAnswers(id) ==
  {a \in AnswerMaps(id) : \A k \in DOMAIN a : a[k] \in QuestionAt(id, k).options}

OldInit ==
  /\ QuizSession /\ QuizIdle /\ ErrIdle /\ EmIdle /\ LpIdle
  /\ ChatIdle
  /\ TokIdle
  /\ RegIdle
  /\ RouteIdle
  /\ MOCK_MODE \in BOOLEAN
  /\ quizModuleId \in ModuleIds
  /\ quizAnswers \in ValidAnswers(quizModuleId)
  /\ quizResult = NotCalled

\* submitQuiz(moduleId, answers): the MOCK_MODE branch, or getCurrentUser and
\* the POST, either of which may fail
submitQuiz(ok) ==
  /\ quizResult = NotCalled
  /\ quizResult' = IF MOCK_MODE THEN MockSubmitQuiz(quizModuleId, quizAnswers)
                   ELSE IF ok THEN ServeQuizSubmit(quizModuleId, quizAnswers)
                   ELSE Threw
  /\ UNCHANGED <<MOCK_MODE, quizModuleId, quizAnswers>>
  /\ UNCHANGED <<apiVars, quizVars, errVars, emVars, lpVars, chatVars, tokVars, regVars, routeVars>>

OldNext == \E ok \in BOOLEAN : submitQuiz(ok)

OldSpec == OldInit /\ [][OldNext]_vars

----------------------------------------------------------------------------
(* Claims checked under OldSpec *)

Graded == quizResult.called /\ ~quizResult.threw

InRange(score) == score.den > 0 /\ 0 <= score.num /\ score.num <= 100 * score.den

AllQuestions == 0..(Len(QuestionsOf(quizModuleId)) - 1)

AllCorrect ==
  /\ DOMAIN quizAnswers = AllQuestions
  /\ \A k \in AllQuestions : quizAnswers[k] = QuestionAt(quizModuleId, k).correct_answer

AllIncorrect ==
  \A k \in DOMAIN quizAnswers : quizAnswers[k] # QuestionAt(quizModuleId, k).correct_answer

----------------------------------------------------------------------------
(* ApiService: how a failed call is reported *)

\* JavaScript values met in an error payload
Undefined == [t |-> "undefined", v |-> ""]
Str(v) == [t |-> "string", v |-> v]
Num(n) == [t |-> "number", v |-> n]
ObjectList == [t |-> "array", v |-> "[object Object]"]

\* ToBoolean
Truthy(x) == ~(x = Undefined \/ x = Str(""))

\* a || b
OrElse(a, b) == IF Truthy(a) THEN a ELSE b

\* String(x) of a string or an array of objects, as `new Error(x)`
\* converts its argument
StringOf(x) == x.v

\* new Error(m).message: '' when m is undefined
ErrorMessage(m) == IF m = Undefined THEN "" ELSE StringOf(m)

NoResponse == [present |-> FALSE, status |-> Undefined,
               detail |-> Undefined, message |-> Undefined]

\* the methods of ApiService that call the API, with the default text each
\* passes to _handleError ("" for checkHealth, which passes none)
ApiMethods ==
  [login |-> "Login failed",
   register |-> "Registration failed",
   getCurrentUser |-> "Failed to get user info",
   generateModule |-> "Failed to generate module",
   getModule |-> "Failed to fetch module",
   getUserModules |-> "Failed to fetch user modules",
   deleteModule |-> "Failed to delete module",
   submitQuiz |-> "Failed to submit quiz",
   getAssignmentLatex |-> "Failed to fetch assignment LaTeX",
   getAssignmentPdf |-> "Failed to fetch assignment PDF",
   generateLearningPath |-> "Failed to generate learning path",
   sendChatMessage |-> "Failed to send chat message",
   downloadModulePDF |-> "Failed to download PDF",
   checkHealth |-> ""]

\* what a JSON error body may hold under `detail` or `message`
PayloadValues == {Undefined, Str(""), Str("Not found"), Str("Bad input"), ObjectList}

\* the errors axios rejects a call with: a response outside 2xx, or no
\* response at all (network error, timeout)
AxiosErrors ==
  {[response |-> [present |-> TRUE, status |-> Num(st), detail |-> d, message |-> m],
    message |-> Str("Request failed")] :
      st \in {401, 404, 422, 500}, d \in PayloadValues, m \in PayloadValues}
  \cup {[response |-> NoResponse, message |-> em] :
          em \in {Str("Network Error"), Str(""), Undefined}}

_handleError_MessageFirst(e, defaultMessage) ==
  [message |-> ErrorMessage(OrElse(e.response.message,
                 OrElse(e.response.detail,
                   OrElse(e.message, Str(defaultMessage))))),
   status |-> e.response.status,
   originalError |-> e]

\* _handleError(error, defaultMessage)
_handleError(e, defaultMessage) ==
  [message |-> ErrorMessage(OrElse(e.response.detail,
                 OrElse(e.response.message,
                   OrElse(e.message, Str(defaultMessage))))),
   status |-> e.response.status,
   originalError |-> e]

ErrInit ==
  /\ QuizSession /\ QuizIdle /\ OldIdle /\ EmIdle /\ LpIdle
  /\ ChatIdle
  /\ TokIdle
  /\ RegIdle
  /\ RouteIdle
  /\ failure \in [method : DOMAIN ApiMethods, error : AxiosErrors]
  /\ reported = NotCalled

\* the catch block of the method called
Catch ==
  /\ reported = NotCalled
  /\ reported' =
       IF failure.method = "checkHealth"
       THEN [called |-> TRUE, threw |-> FALSE, value |-> FALSE]
       ELSE [called |-> TRUE, threw |-> TRUE,
             error |-> _handleError(failure.error, ApiMethods[failure.method])]
  /\ UNCHANGED failure
  /\ UNCHANGED <<apiVars, quizVars, oldVars, emVars, lpVars, chatVars, tokVars, regVars, routeVars>>

ErrNext == Catch

ErrorSpec == ErrInit /\ [][ErrNext]_vars

----------------------------------------------------------------------------
(* Claims checked under ErrorSpec *)

\* the first of detail, message, transport message and default text that is
\* present, whatever its value
FirstPresent(e, defaultMessage) ==
  IF e.response.detail # Undefined THEN e.response.detail
  ELSE IF e.response.message # Undefined THEN e.response.message
  ELSE IF e.message # Undefined THEN e.message
  ELSE Str(defaultMessage)

\* the first of them that is truthy (the default text when none is)
FirstTruthy(e, defaultMessage) ==
  IF Truthy(e.response.detail) THEN e.response.detail
  ELSE IF Truthy(e.response.message) THEN e.response.message
  ELSE IF Truthy(e.message) THEN e.message
  ELSE Str(defaultMessage)

\* C12 (as claimed): every failed call throws an Error whose message is the
\* detail if present, else the response's message, else the transport
\* error's message, else the default text; whose status is the response's
\* status; and whose originalError is the error.
C12_EveryFailureAsStated ==
  reported.called =>
    /\ reported.threw
    /\ reported.error.message =
         StringOf(FirstPresent(failure.error, ApiMethods[failure.method]))
    /\ reported.error.status = failure.error.response.status
    /\ reported.error.originalError = failure.error

\* C12 (amended): every failed call of a method other than checkHealth
\* throws an Error whose message is the string form of the first non-empty
\* one of detail, response message, transport message and default text,
\* whose status is the response's status (undefined without a response) and
\* whose originalError is the error; a failed checkHealth returns false.
C12_FailureNormalized ==
  reported.called =>
    IF failure.method = "checkHealth"
    THEN ~reported.threw /\ reported.value = FALSE
    ELSE /\ reported.threw
         /\ reported.error.message =
              StringOf(FirstTruthy(failure.error, ApiMethods[failure.method]))
         /\ reported.error.status = failure.error.response.status
         /\ reported.error.originalError = failure.error

C12_Witness ==
  /\ reported.called /\ reported.threw
  /\ failure.error.response.detail = Undefined
  /\ Truthy(failure.error.response.message)
  /\ reported.error.message = "Bad input"
  /\ reported.error.status = Num(422)

----------------------------------------------------------------------------
(* EnhancedModules: createModule *)

MaxCreated == 2          \* modules created on the page in one behaviour

Whitespace == {" ", "\t"}

\* String.prototype.trim
RECURSIVE TrimStart(_)
TrimStart(s) ==
  IF Len(s) > 0 /\ SubSeq(s, 1, 1) \in Whitespace
  THEN TrimStart(SubSeq(s, 2, Len(s))) ELSE s

RECURSIVE TrimEnd(_)
TrimEnd(s) ==
  IF Len(s) > 0 /\ SubSeq(s, Len(s), Len(s)) \in Whitespace
  THEN TrimEnd(SubSeq(s, 1, Len(s) - 1)) ELSE s

\* a check that takes the topic as typed
Trim_AsTyped(s) == s

Trim(s) == TrimEnd(TrimStart(s))

\* what can be typed into the topic input
Topics == {"", " ", " \t ", "Lists", " Lists "}

Levels == {"Beginner", "Intermediate", "Advanced"}

EmDefaultForm == [topic |-> "", difficulty |-> "Beginner"]

EmInit ==
  /\ QuizSession /\ QuizIdle /\ OldIdle /\ ErrIdle /\ LpIdle
  /\ ChatIdle
  /\ TokIdle
  /\ RegIdle
  /\ RouteIdle
  /\ EmIdle

\* the Create New Module and Cancel buttons
SetShowCreateForm(shown) ==
  /\ ~emLoading
  /\ shown = TRUE \/ showCreateForm
  /\ showCreateForm' = shown
  /\ UNCHANGED <<emModules, emLoading, emError, newModuleData, emRequests>>
  /\ UNCHANGED <<apiVars, quizVars, oldVars, errVars, lpVars, chatVars, tokVars, regVars, routeVars>>

\* the onChange handlers of the topic input and the difficulty select
SetNewModuleData(field, value) ==
  /\ showCreateForm /\ ~emLoading
  /\ newModuleData' = [newModuleData EXCEPT ![field] = value]
  /\ UNCHANGED <<emModules, emLoading, emError, showCreateForm, emRequests>>
  /\ UNCHANGED <<apiVars, quizVars, oldVars, errVars, lpVars, chatVars, tokVars, regVars, routeVars>>

\* createModule up to its await (the Generate Module button)
createModule ==
  /\ showCreateForm /\ ~emLoading
  /\ IF Trim(newModuleData.topic) = ""
     THEN /\ emError' = "Please enter a topic"
          /\ UNCHANGED <<emLoading, emRequests>>
     ELSE /\ emLoading' = TRUE
          /\ emError' = ""
          /\ emRequests' = emRequests \cup {[body |-> newModuleData]}
  /\ UNCHANGED <<emModules, newModuleData, showCreateForm>>
  /\ UNCHANGED <<apiVars, quizVars, oldVars, errVars, lpVars, chatVars, tokVars, regVars, routeVars>>

\* createModule after `await fetch(...)`: response.ok, a response that is
\* not ok, or a rejected fetch
CreateModuleSettled(c, outcome) ==
  /\ c \in emRequests
  /\ outcome = "ok" => Len(emModules) < MaxCreated
  /\ emRequests' = emRequests \ {c}
  /\ IF outcome = "ok"
     THEN /\ emModules' = Append(emModules, [id |-> Len(emModules) + 1,
                                             topic |-> c.body.topic])
          /\ newModuleData' = EmDefaultForm
          /\ showCreateForm' = FALSE
          /\ emError' = emError
     ELSE /\ emError' = "Failed to create module"
          /\ UNCHANGED <<emModules, newModuleData, showCreateForm>>
  /\ emLoading' = FALSE
  /\ UNCHANGED <<apiVars, quizVars, oldVars, errVars, lpVars, chatVars, tokVars, regVars, routeVars>>

EmNext ==
  \/ \E shown \in BOOLEAN : SetShowCreateForm(shown)
  \/ \E t \in Topics : SetNewModuleData("topic", t)
  \/ \E d \in Levels : SetNewModuleData("difficulty", d)
  \/ createModule
  \/ \E c \in emRequests, outcome \in {"ok", "notok", "throw"} :
       CreateModuleSettled(c, outcome)

EnhancedSpec == EmInit /\ [][EmNext]_vars

----------------------------------------------------------------------------
(* Claims checked under EnhancedSpec *)

\* the topic is empty or holds nothing but white space
Blank(topic) == \A i \in 1..Len(topic) : SubSeq(topic, i, i) \in Whitespace

\* C17: createModule called with an empty or whitespace-only topic sets the
\* error, sends no request, and leaves the module list and the loading flag
\* as they were.
C17_BlankTopicRejected ==
  [][(createModule /\ Blank(newModuleData.topic)) =>
       /\ emError' = "Please enter a topic"
       /\ emRequests' = emRequests
       /\ emModules' = emModules
       /\ emLoading' = emLoading]_vars

C17_Witness ==
  /\ emError = "Please enter a topic"
  /\ newModuleData.topic = " \t "
  /\ emModules # <<>>
  /\ emRequests = {} /\ ~emLoading

----------------------------------------------------------------------------
(* LearningPage: the chat quiz *)

MaxChatQuestions == 2
MaxChat == 12
MaxTimeouts == 2

ChatOptions == {"A", "B"}

\* every question of module.quiz_questions: its options and correct_answer
ChatQuestion == [options |-> ChatOptions, correct_answer |-> "A"]

\* a chat entry without a questionId
NoQuestion == -1

BotMessage(message) ==
  [type |-> "bot", message |-> message, questionId |-> NoQuestion]

greeting == BotMessage("Hi! I'm your AI learning assistant.")

introMessage == BotMessage("Great! Let's test your knowledge.")

completeMessage == BotMessage("Congratulations! You've completed all the questions.")

questionMessage(cq) ==
  [type |-> "bot", message |-> "Question", questionId |-> cq]

\* the entry for the option clicked; the model keeps on it the questionId of
\* the button, which the page passes to handleAnswerSelect
userAnswer(answer, questionId) ==
  [type |-> "user", message |-> answer, questionId |-> questionId]

feedback(isCorrectAnswer) ==
  BotMessage(IF isCorrectAnswer THEN "Correct! Well done!"
             ELSE "Not quite. The correct answer is: A")

\* a pending setTimeout callback: what it runs, and the `currentQuestion`
\* that the closure it was created in sees
Timeout(fn, cq) == [fn |-> fn, currentQuestion |-> cq]

Without(seq, i) == SubSeq(seq, 1, i - 1) \o SubSeq(seq, i + 1, Len(seq))

\* the option buttons on the page: those of the question entries in the chat
\* and the radio inputs of the quiz tab
AnswerButtons ==
  {chatMessages[k].questionId :
     k \in {j \in 1..Len(chatMessages) :
              /\ chatMessages[j].type = "bot"
              /\ chatMessages[j].questionId # NoQuestion}}
  \cup 0..(quizQuestions - 1)

LearnInit ==
  /\ QuizSession /\ QuizIdle /\ OldIdle /\ ErrIdle /\ EmIdle /\ ChatIdle
  /\ TokIdle
  /\ RegIdle
  /\ RouteIdle
  /\ lpModule \in {[quiz_questions |-> n] : n \in 0..MaxChatQuestions}
  /\ quizQuestions \in {0, lpModule.quiz_questions}
  /\ quizMode = FALSE
  /\ lpCurrentQuestion = 0
  /\ chatMessages = <<greeting>>
  /\ selectedAnswer = ""
  /\ lpQuizAnswers = <<>>
  /\ timeouts = <<>>

startQuizMode ==
  /\ ~quizMode
  /\ Len(chatMessages) < MaxChat
  /\ Len(timeouts) < MaxTimeouts
  /\ quizMode' = TRUE
  /\ lpCurrentQuestion' = 0
  /\ chatMessages' = Append(chatMessages, introMessage)
  /\ timeouts' = Append(timeouts, Timeout("showNextQuestion", lpCurrentQuestion))
  /\ UNCHANGED <<lpModule, quizQuestions, selectedAnswer, lpQuizAnswers>>
  /\ UNCHANGED <<apiVars, quizVars, oldVars, errVars, emVars, chatVars, tokVars, regVars, routeVars>>

\* a pending callback runs showNextQuestion
showNextQuestion(i) ==
  /\ i \in 1..Len(timeouts)
  /\ timeouts[i].fn = "showNextQuestion"
  /\ Len(chatMessages) < MaxChat
  /\ LET cq == timeouts[i].currentQuestion
     IN IF cq >= lpModule.quiz_questions
        THEN /\ chatMessages' = Append(chatMessages, completeMessage)
             /\ quizMode' = FALSE
        ELSE /\ chatMessages' = Append(chatMessages, questionMessage(cq))
             /\ UNCHANGED quizMode
  /\ timeouts' = Without(timeouts, i)
  /\ UNCHANGED <<lpModule, quizQuestions, lpCurrentQuestion, selectedAnswer,
                 lpQuizAnswers>>
  /\ UNCHANGED <<apiVars, quizVars, oldVars, errVars, emVars, chatVars, tokVars, regVars, routeVars>>

\* LearningPage's handleAnswerSelect
lpHandleAnswerSelect(answer, questionId) ==
  /\ questionId \in AnswerButtons
  /\ lpQuizAnswers' = (questionId :> answer) @@ lpQuizAnswers
  /\ selectedAnswer' = answer
  /\ IF quizMode /\ questionId < lpModule.quiz_questions
     THEN /\ Len(chatMessages) + 2 <= MaxChat
          /\ Len(timeouts) < MaxTimeouts
          /\ chatMessages' =
               chatMessages \o
                 <<userAnswer(answer, questionId),
                   feedback(answer = ChatQuestion.correct_answer)>>
          /\ timeouts' = Append(timeouts, Timeout("advance", lpCurrentQuestion))
     ELSE \* not in the chat quiz; or module.quiz_questions[questionId] is
          \* undefined and reading its correct_answer throws
          UNCHANGED <<chatMessages, timeouts>>
  /\ UNCHANGED <<lpModule, quizQuestions, quizMode, lpCurrentQuestion>>
  /\ UNCHANGED <<apiVars, quizVars, oldVars, errVars, emVars, chatVars, tokVars, regVars, routeVars>>

\* the callback handleAnswerSelect scheduled runs
advance(i) ==
  /\ i \in 1..Len(timeouts)
  /\ timeouts[i].fn = "advance"
  /\ lpCurrentQuestion' = lpCurrentQuestion + 1
  /\ timeouts' = Append(Without(timeouts, i),
                        Timeout("showNextQuestion", timeouts[i].currentQuestion))
  /\ UNCHANGED <<lpModule, quizQuestions, quizMode, chatMessages,
                 selectedAnswer, lpQuizAnswers>>
  /\ UNCHANGED <<apiVars, quizVars, oldVars, errVars, emVars, chatVars, tokVars, regVars, routeVars>>

LearnNext ==
  \/ startQuizMode
  \/ \E i \in 1..MaxTimeouts : showNextQuestion(i)
  \/ \E answer \in ChatOptions, questionId \in 0..(MaxChatQuestions - 1) :
       lpHandleAnswerSelect(answer, questionId)
  \/ \E i \in 1..MaxTimeouts : advance(i)

LearnSpec == LearnInit /\ [][LearnNext]_vars

\* the entries posted since the latest Start Quiz
QuizRun ==
  LET starts == {k \in 1..Len(chatMessages) : chatMessages[k] = introMessage}
  IN IF starts = {} THEN <<>>
     ELSE SubSeq(chatMessages,
                 (CHOOSE k \in starts : \A j \in starts : j <= k) + 1,
                 Len(chatMessages))

IsQuestion(msg) == msg.type = "bot" /\ msg.questionId # NoQuestion

\* the questions asked in this run, in the order they were posted
Asked == SelectSeq(QuizRun, IsQuestion)

\* every answer of this run was given to the question just shown
AnsweredWhenShown ==
  \A k \in 1..Len(QuizRun) :
    QuizRun[k].type = "user" =>
      /\ k > 1
      /\ IsQuestion(QuizRun[k - 1])
      /\ QuizRun[k - 1].questionId = QuizRun[k].questionId

\* C20 (as claimed): when every answer is given to the question just shown,
\* the chat quiz posts questions 0, 1, ... in index order and each once, and
\* the completion message comes after all of them with quizMode false.
C20_QuestionsOnceInOrder ==
  AnsweredWhenShown =>
    /\ \A k \in 1..Len(Asked) : Asked[k].questionId = k - 1
    /\ (\E k \in 1..Len(QuizRun) : QuizRun[k] = completeMessage) =>
         /\ Len(Asked) = lpModule.quiz_questions
         /\ ~quizMode

----------------------------------------------------------------------------
(* LearningPage: messages typed into the chat *)

ChatInputs == {"", " \t", "hi"}

\* how a sendChatMessage call ends: a body with a response text, a body
\* without one, or a rejection (error status, no response, 30 s timeout)
ChatOutcomes == {"response", "empty", "rejected"}

sentMessage(messageText) ==
  [type |-> "user", message |-> messageText, questionId |-> NoQuestion]

botMessage(outcome) ==
  BotMessage(CASE outcome = "response" -> "response.response"
               [] outcome = "empty" -> "I'm here to help you learn!"
               [] outcome = "rejected" -> "fallbackResponses[k]")

BotEntries_NoFallback(outcome) ==
  IF outcome = "rejected" THEN <<>> ELSE <<botMessage(outcome)>>

\* what handleSendMessage appends once the call has ended
BotEntries(outcome) == <<botMessage(outcome)>>

ChatInit ==
  /\ QuizSession /\ QuizIdle /\ OldIdle /\ ErrIdle /\ EmIdle /\ TokIdle
  /\ RegIdle
  /\ RouteIdle
  /\ lpModule = [quiz_questions |-> MaxChatQuestions]
  /\ quizQuestions = lpModule.quiz_questions
  /\ quizMode = FALSE
  /\ lpCurrentQuestion = 0
  /\ chatMessages = <<greeting>>
  /\ selectedAnswer = ""
  /\ lpQuizAnswers = <<>>
  /\ timeouts = <<>>
  /\ currentInput = ""
  /\ isTyping = FALSE
  /\ chatCalls = <<>>

notChat == <<lpModule, quizQuestions, quizMode, lpCurrentQuestion,
             selectedAnswer, lpQuizAnswers, timeouts>>

\* the chat input's onChange
setCurrentInput(value) ==
  /\ ~quizMode
  /\ currentInput' = value
  /\ UNCHANGED <<chatMessages, isTyping, chatCalls, notChat>>
  /\ UNCHANGED <<apiVars, quizVars, oldVars, errVars, emVars, tokVars, regVars, routeVars>>

\* Enter in the input, or the send button: handleSendMessage up to its await
handleSendMessage ==
  /\ ~quizMode
  /\ IF Trim(currentInput) = ""
     THEN UNCHANGED <<chatMessages, currentInput, isTyping, chatCalls>>
     ELSE /\ Len(chatMessages) + Len(chatCalls) + 2 <= MaxChat
          /\ chatMessages' = Append(chatMessages, sentMessage(currentInput))
          /\ currentInput' = ""
          /\ isTyping' = TRUE
          /\ chatCalls' = Append(chatCalls, currentInput)
  /\ UNCHANGED notChat
  /\ UNCHANGED <<apiVars, quizVars, oldVars, errVars, emVars, tokVars, regVars, routeVars>>

\* handleSendMessage after its await: try, catch and finally
SendMessageSettled(i, outcome) ==
  /\ i \in 1..Len(chatCalls)
  /\ chatMessages' = chatMessages \o BotEntries(outcome)
  /\ isTyping' = FALSE
  /\ chatCalls' = Without(chatCalls, i)
  /\ UNCHANGED <<currentInput, notChat>>
  /\ UNCHANGED <<apiVars, quizVars, oldVars, errVars, emVars, tokVars, regVars, routeVars>>

ChatSettles ==
  \E i \in 1..MaxChat, outcome \in ChatOutcomes : SendMessageSettled(i, outcome)

ChatNext ==
  \/ \E value \in ChatInputs : setCurrentInput(value)
  \/ handleSendMessage
  \/ ChatSettles

\* every call ends within the 30 s axios timeout
ChatSpec == ChatInit /\ [][ChatNext]_vars /\ WF_vars(ChatSettles)

IsSent(msg) == msg.type = "user" /\ msg.questionId = NoQuestion

IsReply(msg) == \E outcome \in ChatOutcomes : msg = botMessage(outcome)

Count(seq, Test(_)) == Len(SelectSeq(seq, Test))

\* C21: each non-blank message sent is one user entry followed, once its call
\* has ended, by one bot entry (the response or a local fallback); isTyping
\* returns to false; a blank input adds no entry and sends no request.
C21_OneUserOneBotEntry ==
  /\ [](Count(chatMessages, IsSent)
          = Count(chatMessages, IsReply) + Len(chatCalls))
  /\ [][Len(chatCalls') > Len(chatCalls) =>
          /\ Trim(currentInput) # ""
          /\ chatMessages' = Append(chatMessages, sentMessage(currentInput))
          /\ chatCalls' = Append(chatCalls, currentInput)]_vars
  /\ [][Len(chatCalls') < Len(chatCalls) =>
          /\ Len(chatCalls') = Len(chatCalls) - 1
          /\ Len(chatMessages') = Len(chatMessages) + 1
          /\ IsReply(chatMessages'[Len(chatMessages')])]_vars
  /\ [][Trim(currentInput) = "" /\ currentInput' = currentInput =>
          UNCHANGED <<chatMessages, chatCalls>> \/ Len(chatCalls') < Len(chatCalls)]_vars
  /\ (isTyping ~> ~isTyping)

\* a message was sent, its call was rejected, and the fallback was appended
C21_Witness ==
  /\ Len(chatMessages) = 3
  /\ chatMessages[2] = sentMessage("hi")
  /\ chatMessages[3] = botMessage("rejected")
  /\ chatCalls = <<>>
  /\ ~isTyping

----------------------------------------------------------------------------
(* ApiService.isAuthenticated *)

MaxExp == 2

\* no value: undefined
NoValue == [kind |-> "undefined", exp |-> -1]

\* the JSON texts a segment may hold: null, an object without exp, an object
\* with a numeric exp (in seconds)
JsonValues ==
  {[kind |-> "null", exp |-> -1], [kind |-> "object", exp |-> -1]}
  \cup {[kind |-> "object", exp |-> n] : n \in 0..MaxExp}

\* a segment of the stored string: whether it is base64 text, whether the
\* decoded text is JSON, and the value that JSON denotes
Segments ==
  {[base64 |-> FALSE, json |-> FALSE, value |-> NoValue],
   [base64 |-> TRUE, json |-> FALSE, value |-> NoValue]}
  \cup {[base64 |-> TRUE, json |-> TRUE, value |-> v] : v \in JsonValues}

\* token.split('.')[1] of a string without a dot is undefined, and atob
\* converts it to the text "undefined", which is not base64
UndefinedSegment == [base64 |-> FALSE, json |-> FALSE, value |-> NoValue]

\* localStorage.getItem('authToken'): null (the empty sequence) or a string
\* of one to three segments separated by dots
TokenStrings ==
  {<<>>} \cup UNION {[1..n -> Segments] : n \in 1..3}

\* Date.now() values around the expiry times
Instants ==
  UNION {{1000 * n - 1, 1000 * n, 1000 * n + 1} : n \in 0..MaxExp} \ {-1}

Returned(value) == [called |-> TRUE, threw |-> FALSE, value |-> value]

Thrown == [called |-> TRUE, threw |-> TRUE, value |-> FALSE]

\* token.split('.')[1]
PayloadSegment(token) == IF Len(token) >= 2 THEN token[2] ELSE UndefinedSegment

\* atob(segment) throws unless the segment is base64 text
AtobThrows(segment) == ~segment.base64

\* JSON.parse(text) throws unless the text is JSON
JsonParseThrows(segment) == ~segment.json

\* payload.exp throws when payload is null
ExpThrows(payload) == payload.kind = "null"

LaterThan_Seconds(exp, instant) == exp >= 0 /\ exp > instant

\* payload.exp * 1000 > Date.now(); an absent exp gives NaN, and NaN > x is
\* false
LaterThan(exp, instant) == exp >= 0 /\ exp * 1000 > instant

\* the body of the try block
TryExpiry(token, instant) ==
  LET segment == PayloadSegment(token)
  IN IF AtobThrows(segment) \/ JsonParseThrows(segment)
          \/ ExpThrows(segment.value)
     THEN Thrown
     ELSE Returned(LaterThan(segment.value.exp, instant))

IsAuthenticated(token, instant) ==
  IF token = <<>> THEN Returned(FALSE)
  ELSE IF TryExpiry(token, instant).threw THEN Returned(FALSE)
  ELSE TryExpiry(token, instant)

TokInit ==
  /\ QuizSession /\ QuizIdle /\ OldIdle /\ ErrIdle /\ EmIdle /\ LpIdle /\ RegIdle
  /\ RouteIdle
  /\ ChatIdle
  /\ storedToken \in TokenStrings
  /\ dateNow \in Instants
  /\ authCheck = [called |-> FALSE]

CallIsAuthenticated ==
  /\ ~authCheck.called
  /\ authCheck' = IsAuthenticated(storedToken, dateNow)
  /\ UNCHANGED <<storedToken, dateNow>>
  /\ UNCHANGED <<apiVars, quizVars, oldVars, errVars, emVars, lpVars, chatVars, regVars, routeVars>>

TokNext == CallIsAuthenticated

TokenSpec == TokInit /\ [][TokNext]_vars

\* the stored string has a payload segment that decodes to JSON
DecodesToJson(token) ==
  /\ Len(token) >= 2
  /\ token[2].base64
  /\ token[2].json

\* C22: isAuthenticated() returns true exactly when a token is stored, its
\* payload segment decodes to JSON and payload.exp * 1000 is later than
\* the current time; it never throws.
C22_TrueIffUnexpiredToken ==
  authCheck.called =>
    /\ ~authCheck.threw
    /\ authCheck.value <=>
         /\ storedToken # <<>>
         /\ DecodesToJson(storedToken)
         /\ storedToken[2].value.kind = "object"
         /\ storedToken[2].value.exp >= 0
         /\ storedToken[2].value.exp * 1000 > dateNow

\* the call returned true one millisecond before the token's expiry
C22_Witness ==
  /\ authCheck.called /\ authCheck.value
  /\ storedToken[2].value.exp * 1000 = dateNow + 1

----------------------------------------------------------------------------
(* AuthProvider on its own: initialization, login, register, logout *)

ApiRegister(email, password) ==
  Request("register", 0, [email |-> email, password |-> password])

dashboardVars == <<modules, newModuleForm, createLoading, srvModules,
                   srvNextId, generated, deleted>>

\* AuthProvider.register up to its await
Register(email, password) ==
  /\ UNCHANGED notApi
  /\ saved' = 0
  /\ Send(Pending("register", 0, ApiRegister(email, password)))
  /\ loading' = TRUE
  /\ UNCHANGED <<authToken, location, now, user, isAuthenticated, dashboardVars>>

\* ApiService.register after its await, then AuthProvider.register
RegisterSettled(c, resp) ==
  /\ UNCHANGED notApi
  /\ saved' = 0
  /\ c.caller = "register"
  /\ Settle(c, resp)
  /\ authToken' = InterceptToken(resp.status, authToken)
  /\ IF Ok(resp)
     THEN /\ user' = resp.data.user
          /\ isAuthenticated' = TRUE
     ELSE UNCHANGED <<user, isAuthenticated>>
  /\ loading' = FALSE
  /\ UNCHANGED <<now, modules, newModuleForm, createLoading, generated, deleted>>

InitAuthSettles ==
  \E c \in inflight : \E resp \in Serve(c.req) : InitAuthSettled(c, resp)

LoginSettles ==
  \E c \in inflight : \E resp \in Serve(c.req) : LoginSettled(c, resp)

RegisterSettles ==
  \E c \in inflight : \E resp \in Serve(c.req) : RegisterSettled(c, resp)

AuthNext ==
  \/ \E path \in Paths : PageLoad(path)
  \/ InitAuthSettles
  \/ \E u \in Users, pw \in {"right", "wrong"} : Login(u, pw)
  \/ LoginSettles
  \/ \E u \in Users, pw \in {"right"} : Register(u, pw)
  \/ RegisterSettles
  \/ Logout
  \/ Tick

\* every call ends (at the latest by the 30 s axios timeout)
AuthSpec ==
  /\ Init
  /\ [][AuthNext]_vars
  /\ WF_vars(InitAuthSettles) /\ WF_vars(LoginSettles) /\ WF_vars(RegisterSettles)

InitAuthPending == \E c \in inflight : c.caller = "initAuth"

\* C23: initAuth ends with loading = false; it leaves isAuthenticated = true
\* only if it held a locally valid token and fetched the user; when the
\* fetch fails the token is removed, user is null and isAuthenticated false.
C23_InitAuthTerminates ==
  /\ [][(\E path \in Paths : PageLoad(path)) =>
          /\ InitAuthPending' <=> (authToken # NoToken /\ authToken.exp > now)
          /\ ~InitAuthPending' => ~loading' /\ ~isAuthenticated' /\ user' = NoUser]_vars
  /\ [][last'.caller = "initAuth" =>
          /\ ~loading'
          /\ IF last'.ok
             THEN /\ last'.auth # NoToken
                  /\ isAuthenticated' /\ user' = last'.data.user
             ELSE /\ authToken' = NoToken
                  /\ user' = NoUser
                  /\ ~isAuthenticated']_vars
  /\ (InitAuthPending ~> ~InitAuthPending)

\* initAuth's fetch failed without a 401 and the token was removed
C23_Witness ==
  /\ last.caller = "initAuth" /\ ~last.ok /\ last.status # 401
  /\ authToken = NoToken /\ ~loading /\ ~isAuthenticated

\* C26 (as claimed): whenever isAuthenticated is true a token is stored.
C26_AuthenticatedHasToken ==
  isAuthenticated => authToken # NoToken

----------------------------------------------------------------------------
(* RegisterPage *)

MinPasswordLength == 8
MaxRegCalls == 2

\* passwords of 1, 7, 8 and 9 characters (the inputs are `required`)
Passwords == {"p", "passwor", "password", "passw0rd", "passwords"}

PasswordTooShort == "Password must be at least 8 characters long"

PasswordsDiffer == "Passwords do not match"

validateForm_LengthOnly(form) ==
  IF Len(form.password) < MinPasswordLength THEN PasswordTooShort ELSE ""

\* validateForm: the error it sets, "" when it returns true
validateForm(form) ==
  IF Len(form.password) < MinPasswordLength THEN PasswordTooShort
  ELSE IF form.password # form.confirmPassword THEN PasswordsDiffer
  ELSE ""

RegInit ==
  /\ QuizSession /\ QuizIdle /\ OldIdle /\ ErrIdle /\ EmIdle /\ LpIdle
  /\ ChatIdle /\ TokIdle /\ RouteIdle
  /\ formData \in [password : Passwords, confirmPassword : Passwords]
  /\ regLoading = FALSE
  /\ regError = ""
  /\ success = FALSE
  /\ regCalls = 0
  /\ regTimeouts = 0
  /\ regPath = "/register"

notReg == <<apiVars, quizVars, oldVars, errVars, emVars, lpVars, chatVars,
            tokVars, routeVars>>

\* handleChange of the password and confirmPassword inputs
handleChange(name, value) ==
  /\ regPath = "/register" /\ ~success
  /\ formData' = [formData EXCEPT ![name] = value]
  /\ UNCHANGED <<regLoading, regError, success, regCalls, regTimeouts, regPath>>
  /\ UNCHANGED notReg

\* RegisterPage.handleSubmit up to its await
registerSubmit ==
  /\ regPath = "/register" /\ ~success
  /\ IF validateForm(formData) # ""
     THEN /\ regError' = validateForm(formData)
          /\ UNCHANGED <<regLoading, regCalls>>
     ELSE /\ regCalls < MaxRegCalls
          /\ regError' = ""
          /\ regLoading' = TRUE
          /\ regCalls' = regCalls + 1
  /\ UNCHANGED <<formData, success, regTimeouts, regPath>>
  /\ UNCHANGED notReg

\* RegisterPage.handleSubmit after its await
registerSettled(succeeded) ==
  /\ regCalls > 0
  /\ regCalls' = regCalls - 1
  /\ IF succeeded
     THEN /\ success' = TRUE
          /\ regTimeouts' = regTimeouts + 1
          /\ UNCHANGED regError
     ELSE /\ regError' = "Registration failed. Please try again."
          /\ UNCHANGED <<success, regTimeouts>>
  /\ regLoading' = FALSE
  /\ UNCHANGED <<formData, regPath>>
  /\ UNCHANGED notReg

\* the 2000 ms timeout set after a successful registration
navigateToLogin ==
  /\ regTimeouts > 0
  /\ regTimeouts' = regTimeouts - 1
  /\ regPath' = "/login"
  /\ UNCHANGED <<formData, regLoading, regError, success, regCalls>>
  /\ UNCHANGED notReg

RegNext ==
  \/ \E name \in {"password", "confirmPassword"}, value \in Passwords :
       handleChange(name, value)
  \/ registerSubmit
  \/ \E succeeded \in BOOLEAN : registerSettled(succeeded)
  \/ navigateToLogin

RegisterSpec == RegInit /\ [][RegNext]_vars

\* C25: a registration request is sent only with a password of at least 8
\* characters that equals its confirmation; a submission that fails either
\* test sets an error message, sends no request and starts no navigation.
C25_RegisterOnlyValidPassword ==
  /\ [][regCalls' > regCalls =>
          /\ Len(formData.password) >= 8
          /\ formData.password = formData.confirmPassword]_vars
  /\ [][(registerSubmit /\ (Len(formData.password) < 8
                            \/ formData.password # formData.confirmPassword)) =>
          /\ regError' \in {PasswordTooShort, PasswordsDiffer}
          /\ UNCHANGED <<regCalls, regTimeouts, regPath, success>>]_vars

\* a submission with two different 8-character passwords was refused
C25_Witness ==
  /\ regError = PasswordsDiffer
  /\ Len(formData.password) = 8 /\ Len(formData.confirmPassword) = 8
  /\ regCalls = 0 /\ regPath = "/register" /\ ~success

----------------------------------------------------------------------------
(* Routes: protected pages and the auth context *)

ProtectedRoutes == {"/module/1", "/learn/1", "/quiz/1"}

Routes == ProtectedRoutes \cup {"/login", "/dashboard"}

notRoute == <<quizVars, oldVars, errVars, emVars, lpVars, chatVars, tokVars,
              regVars>>

\* where a page's effect leaves the router: ModuleDetailPage, LearningPage
\* and QuizPage navigate to /login when the context's isAuthenticated, as
\* the render the effect belongs to saw it, is false
PageEffect(path, authenticated) ==
  IF path \in ProtectedRoutes /\ ~authenticated THEN "/login" ELSE path

\* nothing is open yet; the context's state is its useState defaults
RouteInit ==
  /\ authToken \in StoredTokens
  /\ location = "/login"
  /\ now = 0
  /\ inflight = {}
  /\ last = NoCall
  /\ user = NoUser
  /\ loading = TRUE
  /\ isAuthenticated = FALSE
  /\ modules = <<>>
  /\ newModuleForm = DefaultForm
  /\ createLoading = FALSE
  /\ srvModules = {}
  /\ srvNextId = 1
  /\ generated = {}
  /\ deleted = {}
  /\ saved = 0
  /\ QuizIdle /\ OldIdle /\ ErrIdle /\ EmIdle /\ LpIdle /\ ChatIdle
  /\ TokIdle /\ RegIdle /\ RouteIdle

\* The user opens a url: the app mounts.  In the first commit the page's
\* effect runs with isAuthenticated = useState(false), and AuthProvider's
\* effect runs initAuth up to its await.
OpenPage(path) ==
  /\ route' = PageEffect(path, FALSE)
  /\ location' = route'
  /\ inflight' = InitAuthRequests
  /\ loading' = ApiIsAuthenticated
  /\ user' = NoUser
  /\ isAuthenticated' = FALSE
  /\ last' = NoCall
  /\ saved' = 0
  /\ modules' = <<>>
  /\ newModuleForm' = DefaultForm
  /\ createLoading' = FALSE
  /\ UNCHANGED <<authToken, now, srvModules, srvNextId, generated, deleted>>
  /\ UNCHANGED notRoute

\* a link or button of the app navigates without reloading: the page mounts
\* and its effect runs with the context's current isAuthenticated
NavigateTo(path) ==
  /\ route \notin {"none", path}
  /\ route' = PageEffect(path, isAuthenticated)
  /\ location' = route'
  /\ IF route' \in ProtectedRoutes
     THEN Send(Pending("loadModule", 1, ApiGetModule(1)))
     ELSE /\ last' = NoCall
          /\ UNCHANGED inflight
  /\ saved' = 0
  /\ UNCHANGED <<authToken, now, user, loading, isAuthenticated, modules,
                 newModuleForm, createLoading, srvModules, srvNextId,
                 generated, deleted>>
  /\ UNCHANGED notRoute

\* isAuthenticated changed while a protected page is shown: its effect runs
\* again
AuthChanged ==
  /\ route \in ProtectedRoutes
  /\ ~isAuthenticated
  /\ route' = PageEffect(route, isAuthenticated)
  /\ location' = route'
  /\ last' = NoCall
  /\ saved' = 0
  /\ UNCHANGED <<authToken, now, inflight, user, loading, isAuthenticated,
                 modules, newModuleForm, createLoading, srvModules, srvNextId,
                 generated, deleted>>
  /\ UNCHANGED notRoute

RouteNext ==
  \/ \E path \in Routes : OpenPage(path)
  \/ \E path \in Routes : NavigateTo(path)
  \/ AuthChanged
  \/ route # "none" /\ InitAuthSettles
  \/ \E u \in Users, pw \in {"right", "wrong"} : route = "/login" /\ Login(u, pw)
  \/ route # "none" /\ LoginSettles
  \/ \E c \in inflight : \E resp \in Serve(c.req) :
       route # "none" /\ LoadModuleSettled(c, resp)
  \/ route # "none" /\ Logout
  \/ Tick

RouteSpec == RouteInit /\ [][RouteNext]_vars

\* C27 (as claimed): opening a protected page directly leads to /login only
\* if auth initialization has already finished and left the user
\* unauthenticated; with a valid, unexpired token the page stays.
C27_NoRedirectBeforeInitAuth ==
  [][\A path \in ProtectedRoutes :
       OpenPage(path) =>
         /\ route' = "/login" => ~InitAuthPending' /\ ~loading' /\ ~isAuthenticated'
         /\ (authToken # NoToken /\ authToken.exp > now) => route' = path]_vars

=============================================================================
